---- MODULE Spec2Model ----
(***************************************************************************)
(* Model of the CBZ nodes of src/src/cbz_pack/nodes.py: the CBZCollector   *)
(* (collect_cbz_data) and the CBZUnpacker (unpack_cbz).                     *)
(*                                                                         *)
(* Python strings that the code takes apart (paths, ids, entry names) are   *)
(* sequences of one-character strings, ordered by code point.              *)
(* Python dicts are sequences of <<key, value>> pairs in insertion order.  *)
(* None and the empty list are both the empty sequence: every test the     *)
(* code makes on an optional list (`not images`, `x and len(x) > 0`)       *)
(* treats them alike.                                                      *)
(***************************************************************************)
EXTENDS Integers, Sequences, FiniteSets, TLC

\* ------------------------------------------------------------------ bounds

\* Longest list handed to one collect_cbz_data call.
MaxLen == 3

\* ------------------------------------------------------------- input sets

\* The i-th image tensor of a call: an opaque value the collector never
\* inspects. Positions 1 and 3 carry equal tensors, so a group can hold the
\* same image twice.
ImageAt(i) == IF i % 2 = 1 THEN "p1" ELSE "p2"

\* The i-th filename and the i-th metadata string of a call: the collector
\* never compares them, so distinct values per position are the general case.
FilenameAt(i) == <<"f", i>>

MetadataAt(i) == <<"m", i>>

Min2(a, b) == IF a <= b THEN a ELSE b

\* ------------------------------------------------------------ Python dict

DictKeys(d) == [i \in 1..Len(d) |-> d[i][1]]

DictHas(d, k) == \E i \in 1..Len(d) : d[i][1] = k

DictGet(d, k) == d[CHOOSE i \in 1..Len(d) : d[i][1] = k][2]

\* d[k] = v: a new key goes last, an existing key keeps its place.
DictSet(d, k, v) ==
    IF DictHas(d, k)
    THEN [i \in 1..Len(d) |-> IF d[i][1] = k THEN <<k, v>> ELSE d[i]]
    ELSE Append(d, <<k, v>>)

DictDel(d, k) == SelectSeq(d, LAMBDA e : e[1] # k)

\* ---------------------------------------------------------- Python strings

RECURSIVE Flatten(_)
\* "".join of a list of chunk sequences.
Flatten(parts) ==
    IF parts = <<>> THEN <<>> ELSE Head(parts) \o Flatten(Tail(parts))

RECURSIVE SplitUnderscore(_, _, _)
\* s.split('_', maxsplit) with the piece being built in cur.
SplitUnderscore(s, maxsplit, cur) ==
    IF s = <<>> THEN <<cur>>
    ELSE IF Head(s) = "_" /\ maxsplit > 0
         THEN <<cur>> \o SplitUnderscore(Tail(s), maxsplit - 1, <<>>)
         ELSE SplitUnderscore(Tail(s), maxsplit, Append(cur, Head(s)))

\* cbz_id.split('_', 2)[-1] if '_' in cbz_id else f"{cbz_id}.cbz"
PathOfId(cbz_id) ==
    IF \E i \in 1..Len(cbz_id) : cbz_id[i] = "_"
    THEN LET parts == SplitUnderscore(cbz_id, 2, <<>>) IN parts[Len(parts)]
    ELSE cbz_id \o <<".", "c", "b", "z">>

\* The metadata default "{}" and the id default "batch_cbz".
EmptyJson == <<"{}">>

BatchDefaultId == <<"b", "a", "t", "c", "h", "_", "c", "b", "z">>

\* The characters the model's strings use, in code point order.
Alphabet ==
    <<"-", ".", "/", "1", "2", "A", "B", "C", "G", "M", "N", "O", "P", "S",
      "X", "Z", "_", "a", "b", "c", "e", "f", "g", "i", "j", "m", "n", "p",
      "s", "t", "w", "x", "y", "z">>

Ord(ch) == CHOOSE i \in 1..Len(Alphabet) : Alphabet[i] = ch

\* str.lower(), on the upper-case letters in use.
LowerChar(ch) ==
    CASE ch = "A" -> "a" [] ch = "B" -> "b" [] ch = "C" -> "c"
      [] ch = "G" -> "g" [] ch = "M" -> "m" [] ch = "N" -> "n"
      [] ch = "O" -> "o" [] ch = "P" -> "p" [] ch = "S" -> "s"
      [] ch = "X" -> "x" [] ch = "Z" -> "z" [] OTHER -> ch

Lower(s) == [i \in 1..Len(s) |-> LowerChar(s[i])]

EndsWith(s, suffix) ==
    /\ Len(s) >= Len(suffix)
    /\ SubSeq(s, Len(s) - Len(suffix) + 1, Len(s)) = suffix

StartsWith(s, prefix) ==
    /\ Len(s) >= Len(prefix)
    /\ SubSeq(s, 1, Len(prefix)) = prefix

RECURSIVE StrLess(_, _)
\* a < b on Python strings: the first differing character decides, a proper
\* prefix is smaller.
StrLess(a, b) ==
    IF b = <<>> THEN FALSE
    ELSE IF a = <<>> THEN TRUE
    ELSE IF Head(a) = Head(b) THEN StrLess(Tail(a), Tail(b))
    ELSE Ord(Head(a)) < Ord(Head(b))

RECURSIVE Basename(_)
\* os.path.basename: what follows the last "/".
Basename(path) ==
    IF \E i \in 1..Len(path) : path[i] = "/"
    THEN Basename(Tail(path))
    ELSE path

\* ------------------------------------------------------- unpacker inputs

\* Three archive paths: "/x/a.cbz", "/y/m_b.CBZ" and "/x/a.zip".
PathA == <<"/", "x", "/", "a", ".", "c", "b", "z">>

PathB == <<"/", "y", "/", "m", "_", "b", ".", "C", "B", "Z">>

PathZ == <<"/", "x", "/", "a", ".", "z", "i", "p">>

Paths == {PathA, PathB, PathZ}

\* str(hash(cbz_path)): some decimal numeral, fixed per path within a run.
HashOf(path) == IF path = PathA THEN <<"1">> ELSE <<"-", "2">>

\* f"cbz_{hash(cbz_path)}_{os.path.basename(cbz_path)}"
CbzIdOf(path) ==
    <<"c", "b", "z", "_">> \o HashOf(path) \o <<"_">> \o Basename(path)

\* The ids the collector is handed: those of the two .cbz paths.
IdA == CbzIdOf(PathA)

IdB == CbzIdOf(PathB)

Ids == {IdA, IdB}

\* Entry names: "a.jpg", "b.jpg", "c.jpg", "s/a.PNG" and "__MACOSX/a.jpg".
NameA == <<"a", ".", "j", "p", "g">>

NameB == <<"b", ".", "j", "p", "g">>

NameC == <<"c", ".", "j", "p", "g">>

NameS == <<"s", "/", "a", ".", "P", "N", "G">>

NameM == <<"_", "_", "M", "A", "C", "O", "S", "X", "/", "a", ".", "j", "p", "g">>

Names == {NameA, NameB, NameC, NameS, NameM}

\* valid_extensions
ValidExtensions ==
    { <<".", "j", "p", "g">>, <<".", "j", "p", "e", "g">>, <<".", "p", "n", "g">>,
      <<".", "w", "e", "b", "p">>, <<".", "b", "m", "p">>, <<".", "g", "i", "f">>,
      <<".", "t", "i", "f", "f">> }

MacosxPrefix == <<"_", "_", "M", "A", "C", "O", "S", "X", "/">>

CbzSuffix == <<".", "c", "b", "z">>

\* f.lower().endswith(valid_extensions) and not f.startswith('__MACOSX/')
IsImageEntry(f) ==
    /\ \E ext \in ValidExtensions : EndsWith(Lower(f), ext)
    /\ ~StartsWith(f, MacosxPrefix)

\* Longest archive name list, and largest image_load_cap and start_index.
MaxEntries == 3

MaxIndex == 2

\* What an entry's bytes are: a decodable image, bytes PIL cannot decode, or
\* bytes whose read from the archive fails (a bad CRC). Only a.jpg and b.jpg
\* are ever damaged.
DataKinds == {"image", "corrupt", "bad_crc"}

Damageable == {NameA, NameB}

\* The sidecar: no ComicInfo.xml entry, a well-formed one, bytes that are not
\* UTF-8, or text that is not XML.
SidecarKinds == {"absent", "ok", "not_utf8", "not_xml"}

\* Name lists without repeats, up to MaxEntries long.
NameLists ==
    UNION {{l \in [1..k -> Names] : \A i, j \in 1..k : i # j => l[i] # l[j]}
             : k \in 0..MaxEntries}

\* The files a path may lead to: nothing, a file that is no ZIP container, or
\* an archive with a name list, entry data and a sidecar.
NoFile == [exists |-> FALSE]

NotZipFile == [exists |-> TRUE, zip |-> FALSE]

Archives ==
    {[exists |-> TRUE, zip |-> TRUE, namelist |-> l, data |-> d, sidecar |-> sc] :
        l \in NameLists,
        d \in [Damageable -> DataKinds],
        sc \in SidecarKinds}

\* ------------------------------------------------------------ os.path

\* The position of the last "/" of a path, 0 when it has none.
LastSlash(path) ==
    LET at == {i \in 1..Len(path) : path[i] = "/"}
    IN IF at = {} THEN 0 ELSE CHOOSE i \in at : \A j \in at : j <= i

RECURSIVE StripSlashes(_)
\* head.rstrip('/')
StripSlashes(head) ==
    IF head # <<>> /\ head[Len(head)] = "/"
    THEN StripSlashes(SubSeq(head, 1, Len(head) - 1))
    ELSE head

\* os.path.dirname: what stands before the last "/", without trailing
\* slashes unless it is made of slashes only; "" for a bare file name.
Dirname(path) ==
    LET head == SubSeq(path, 1, LastSlash(path))
    IN IF StripSlashes(head) = <<>> THEN head ELSE StripSlashes(head)

\* os.path.splitext(path)[0]: the path up to the last "." of its last
\* component, leading dots of the component not counted.
SplitextRoot(path) ==
    LET sep == LastSlash(path)
        dots == {i \in (sep + 1)..Len(path) : path[i] = "."}
        dot == IF dots = {} THEN 0 ELSE CHOOSE i \in dots : \A j \in dots : j <= i
    IN IF dot = 0 \/ \A i \in (sep + 1)..dot : path[i] = "."
       THEN path
       ELSE SubSeq(path, 1, dot - 1)

\* os.path.join(a, b)
PathJoin(a, b) ==
    IF b # <<>> /\ b[1] = "/" THEN b
    ELSE IF a = <<>> \/ a[Len(a)] = "/" THEN a \o b
    ELSE a \o <<"/">> \o b

\* ------------------------------------------------- metadata as JSON and XML

\* A JSON value is a string <<"str", text>> or a number <<"int", digits>>; a
\* key a dict does not have is Absent.
Absent == <<"absent">>

StrX == <<"str", "X">>

StrEmpty == <<"str", "">>

Int7 == <<"int", "7">>

\* str(value)
Str(value) == IF value = Absent THEN Absent ELSE <<"str", value[2]>>

\* Most entries of a Pages list.
MaxPages == 2

\* The entries of a Pages list: dicts with or without the attribute Image,
\* which parse_comic_info reads, and the attribute Bookmark, which it does not.
PageInfos ==
    [Image : {Absent, <<"str", "0">>, <<"str", "1">>, Int7},
     Bookmark : {Absent, <<"str", "b">>}]

NoPages == [present |-> FALSE, list |-> <<>>]

PagesValues ==
    {NoPages} \cup
    {[present |-> TRUE, list |-> l] :
        l \in UNION {[1..n -> PageInfos] : n \in 0..MaxPages}}

\* A metadata string that is no JSON document.
NotJson == [json |-> FALSE]

\* The JSON documents handed around as metadata: dicts that may have the keys
\* "error" and "info" of the placeholders, the ComicInfo field Title, a key
\* Foo that is no ComicInfo field, and a Pages list.
Docs ==
    [json : {TRUE}, error : {Absent, StrX}, info : {Absent, StrX},
     Title : {Absent, StrX, StrEmpty, Int7}, Foo : {Absent, StrX},
     Pages : PagesValues]

\* json.loads("{}")
EmptyDoc ==
    [json |-> TRUE, error |-> Absent, info |-> Absent, Title |-> Absent,
     Foo |-> Absent, Pages |-> NoPages]

\* The placeholder of an archive without sidecar, the placeholder of a
\* sidecar that does not parse, and a record with a title.
InfoDoc == [EmptyDoc EXCEPT !.info = StrX]

ErrorDoc == [EmptyDoc EXCEPT !.error = StrX]

TitleDoc == [EmptyDoc EXCEPT !.Title = StrX]

\* create_comic_info_xml's result None.
NoXml == [xml |-> FALSE]

\* A mutant of create_comic_info_xml: the Pages list is left out.
create_comic_info_xml_NoPages(metadata) ==
    IF ~metadata.json THEN NoXml
    ELSE IF metadata.error # Absent \/ metadata.info # Absent THEN NoXml
    ELSE [xml |-> TRUE, Title |-> Str(metadata.Title), Pages |-> NoPages]

\* ExportCBZ.create_comic_info_xml: None for what is no JSON and for a
\* document with the key "error" or "info"; otherwise a ComicInfo element
\* with a child per field present, its text str(value), and for a Pages list
\* a Pages element with a Page per entry, every key of the entry an attribute
\* with str(value).
create_comic_info_xml(metadata) ==
    IF ~metadata.json THEN NoXml
    ELSE IF metadata.error # Absent \/ metadata.info # Absent THEN NoXml
    ELSE [xml |-> TRUE,
          Title |-> Str(metadata.Title),
          Pages |-> [present |-> metadata.Pages.present,
                     list |-> [i \in 1..Len(metadata.Pages.list) |->
                                 [Image |-> Str(metadata.Pages.list[i].Image),
                                  Bookmark |-> Str(metadata.Pages.list[i].Bookmark)]]]]

\* The attributes parse_comic_info reads off a Page element.
ReadPage(page) == [Image |-> page.Image, Bookmark |-> Absent]

\* parse_comic_info on a ComicInfo element: a field is kept when its element
\* is there and its text is not empty, a Page when it has one of the
\* attributes read, the Pages list when a Page was kept.
parse_comic_info(xml) ==
    LET kept == SelectSeq(xml.Pages.list, LAMBDA page : page.Image # Absent)
        pages == [i \in 1..Len(kept) |-> ReadPage(kept[i])]
    IN [json |-> TRUE, error |-> Absent, info |-> Absent, Foo |-> Absent,
        Title |-> IF xml.Title # Absent /\ xml.Title # StrEmpty
                  THEN xml.Title ELSE Absent,
        Pages |-> IF xml.Pages.present /\ pages # <<>>
                  THEN [present |-> TRUE, list |-> pages]
                  ELSE NoPages]

\* ------------------------------------------------------------------ state

VARIABLES
    image_groups,     \* CBZCollector.image_groups: cbz_id -> list of images
    filename_groups,  \* CBZCollector.filename_groups: cbz_id -> list of filenames
    metadata_cache,   \* CBZCollector.metadata_cache: cbz_id -> metadata string
    expected_counts,  \* CBZCollector.expected_counts: set up, never used
    call,             \* the arguments of the latest collect_cbz_data call
    held,             \* the three tables as the latest call's first loop left them
    units,            \* one record per pass of the latest call's output loop
    ret,              \* what the latest call returned or raised
    file,             \* what lies at the path handed to unpack_cbz
    uargs,            \* the arguments of the unpack_cbz call
    upc,              \* "ready" before unpack_cbz has run, "done" after
    uret,             \* what unpack_cbz returned or raised
    image_files,      \* unpack_cbz's list of entries to load, as its loop got it
    tempfiles,        \* the temporary files unpack_cbz left on disk
    eargs,            \* the arguments of the export_cbz call
    epc,              \* where the export_cbz call stands
    eret,             \* what export_cbz returned or raised
    dirs,             \* the directories that exist
    written,          \* the archive export_cbz wrote
    mdoc,             \* a metadata document to be written and read back
    mpc,              \* where the writing and reading back stands
    mxml,             \* what create_comic_info_xml made of mdoc
    mback             \* what parse_comic_info made of mxml

collector_vars == <<image_groups, filename_groups, metadata_cache,
                    expected_counts, call, held, units, ret>>

unpacker_vars == <<file, uargs, upc, uret, image_files, tempfiles>>

exporter_vars == <<eargs, epc, eret, dirs, written>>

meta_vars == <<mdoc, mpc, mxml, mback>>

vars == <<collector_vars, unpacker_vars, exporter_vars, meta_vars>>

\* The three tables as one value.
Tables == [ig |-> image_groups, fg |-> filename_groups, mc |-> metadata_cache]

NoCall == [input_mode |-> "none"]

NoRet == [kind |-> "none"]

Raise(exc, msg) == [kind |-> "raise", exc |-> exc, msg |-> msg]

Return(images, filenames, metadata, cbz_paths) ==
    [kind |-> "return", images |-> images, filenames |-> filenames,
     metadata |-> metadata, cbz_paths |-> cbz_paths]

\* ------------------------------------------------- collect_cbz_data, pieces

\* zip(images, filenames, metadata, cbz_ids) stops at the shortest list.
ZipLen(images, filenames, metadata, cbz_ids) ==
    Min2(Min2(Len(images), Len(filenames)), Min2(Len(metadata), Len(cbz_ids)))

\* A mutant of StepPage: the cache is overwritten by every page's metadata.
StepPage_LastMeta(t, img, fname, meta, cbz_id) ==
    LET t1 == IF ~DictHas(t.ig, cbz_id)
              THEN [ig |-> DictSet(t.ig, cbz_id, <<>>),
                    fg |-> DictSet(t.fg, cbz_id, <<>>),
                    mc |-> t.mc]
              ELSE t
    IN [ig |-> DictSet(t1.ig, cbz_id, Append(DictGet(t1.ig, cbz_id), img)),
        fg |-> DictSet(t1.fg, cbz_id, Append(DictGet(t1.fg, cbz_id), fname)),
        mc |-> DictSet(t1.mc, cbz_id, meta)]

\* One pass of the first loop: open the group on the id's first page, then
\* append the image and the filename.
StepPage(t, img, fname, meta, cbz_id) ==
    LET t1 == IF ~DictHas(t.ig, cbz_id)
              THEN [ig |-> DictSet(t.ig, cbz_id, <<>>),
                    fg |-> DictSet(t.fg, cbz_id, <<>>),
                    mc |-> DictSet(t.mc, cbz_id, meta)]
              ELSE t
    IN [ig |-> DictSet(t1.ig, cbz_id, Append(DictGet(t1.ig, cbz_id), img)),
        fg |-> DictSet(t1.fg, cbz_id, Append(DictGet(t1.fg, cbz_id), fname)),
        mc |-> t1.mc]

RECURSIVE Accumulate(_, _, _, _, _, _)
\* The first loop, from position i of the zipped lists.
Accumulate(t, images, filenames, metadata, cbz_ids, i) ==
    IF i > ZipLen(images, filenames, metadata, cbz_ids) THEN t
    ELSE Accumulate(StepPage(t, images[i], filenames[i], metadata[i], cbz_ids[i]),
                    images, filenames, metadata, cbz_ids, i + 1)

\* A mutant of EmitGroup: only the group's first page reaches the output.
EmitGroup_Partial(acc, cbz_id) ==
    LET unit == [cbz_id |-> cbz_id,
                 images |-> SubSeq(DictGet(acc.t.ig, cbz_id), 1, 1),
                 filenames |-> SubSeq(DictGet(acc.t.fg, cbz_id), 1, 1),
                 metadata |-> DictGet(acc.t.mc, cbz_id),
                 cbz_path |-> PathOfId(cbz_id)]
    IN [t |-> [ig |-> DictDel(acc.t.ig, cbz_id),
               fg |-> DictDel(acc.t.fg, cbz_id),
               mc |-> DictDel(acc.t.mc, cbz_id)],
        units |-> Append(acc.units, unit),
        all_images |-> acc.all_images \o unit.images,
        all_filenames |-> acc.all_filenames \o unit.filenames,
        all_metadata |-> Append(acc.all_metadata, unit.metadata),
        all_cbz_paths |-> Append(acc.all_cbz_paths, unit.cbz_path)]

\* A mutant of EmitGroup: the id stays in metadata_cache.
EmitGroup_KeepMeta(acc, cbz_id) ==
    LET unit == [cbz_id |-> cbz_id,
                 images |-> DictGet(acc.t.ig, cbz_id),
                 filenames |-> DictGet(acc.t.fg, cbz_id),
                 metadata |-> DictGet(acc.t.mc, cbz_id),
                 cbz_path |-> PathOfId(cbz_id)]
    IN [t |-> [ig |-> DictDel(acc.t.ig, cbz_id),
               fg |-> DictDel(acc.t.fg, cbz_id),
               mc |-> acc.t.mc],
        units |-> Append(acc.units, unit),
        all_images |-> acc.all_images \o unit.images,
        all_filenames |-> acc.all_filenames \o unit.filenames,
        all_metadata |-> Append(acc.all_metadata, unit.metadata),
        all_cbz_paths |-> Append(acc.all_cbz_paths, unit.cbz_path)]

\* One pass of the output loop: the group's lists go to the output lists and
\* the id leaves the three tables.
EmitGroup(acc, cbz_id) ==
    LET unit == [cbz_id |-> cbz_id,
                 images |-> DictGet(acc.t.ig, cbz_id),
                 filenames |-> DictGet(acc.t.fg, cbz_id),
                 metadata |-> DictGet(acc.t.mc, cbz_id),
                 cbz_path |-> PathOfId(cbz_id)]
    IN [t |-> [ig |-> DictDel(acc.t.ig, cbz_id),
               fg |-> DictDel(acc.t.fg, cbz_id),
               mc |-> DictDel(acc.t.mc, cbz_id)],
        units |-> Append(acc.units, unit),
        all_images |-> acc.all_images \o unit.images,
        all_filenames |-> acc.all_filenames \o unit.filenames,
        all_metadata |-> Append(acc.all_metadata, unit.metadata),
        all_cbz_paths |-> Append(acc.all_cbz_paths, unit.cbz_path)]

RECURSIVE Drain(_, _)
\* The output loop over list(self.image_groups.keys()).
Drain(acc, keys) ==
    IF keys = <<>> THEN acc
    ELSE Drain(EmitGroup(acc, Head(keys)), Tail(keys))

DrainStart(t) ==
    [t |-> t, units |-> <<>>, all_images |-> <<>>, all_filenames |-> <<>>,
     all_metadata |-> <<>>, all_cbz_paths |-> <<>>]

\* ------------------------------------------------------ collect_cbz_data

\* CBZCollector.__init__
CollectorInit ==
    /\ image_groups = <<>>
    /\ filename_groups = <<>>
    /\ metadata_cache = <<>>
    /\ expected_counts = <<>>
    /\ call = NoCall
    /\ held = [ig |-> <<>>, fg |-> <<>>, mc |-> <<>>]
    /\ units = <<>>
    /\ ret = NoRet

\* A mutant of BatchResult: the whole metadata list is passed on, not its
\* first record.
BatchResult_AllMetadata(images, filenames, metadata, cbz_ids) ==
    IF images = <<>>
    THEN Raise("ValueError", "No images provided in batch mode")
    ELSE LET batch_cbz_id == IF cbz_ids # <<>> THEN cbz_ids[1] ELSE BatchDefaultId
         IN Return(images, filenames, metadata, <<PathOfId(batch_cbz_id)>>)

\* The batch_list branch: nothing is stored, the lists go straight through.
BatchResult(images, filenames, metadata, cbz_ids) ==
    IF images = <<>>
    THEN Raise("ValueError", "No images provided in batch mode")
    ELSE LET batch_cbz_id == IF cbz_ids # <<>> THEN cbz_ids[1] ELSE BatchDefaultId
             batch_metadata == IF metadata # <<>> THEN metadata[1] ELSE EmptyJson
         IN Return(images, filenames, batch_metadata, <<PathOfId(batch_cbz_id)>>)

\* The end of the single_images branch: what the drained lists turn into.
SingleResult(d, force_output) ==
    IF d.all_images = <<>>
    THEN IF force_output
         THEN Return(<<>>, <<>>, EmptyJson, <<>>)
         ELSE Raise("ValueError", "No complete CBZ groups ready for output")
    ELSE Return(d.all_images, d.all_filenames, d.all_metadata, d.all_cbz_paths)

\* One whole call of CBZCollector.collect_cbz_data.
collect_cbz_data(input_mode, images, filenames, metadata, cbz_ids, force_output) ==
    LET c == [input_mode |-> input_mode, images |-> images,
              filenames |-> filenames, metadata |-> metadata,
              cbz_ids |-> cbz_ids, force_output |-> force_output]
    IN
    /\ call' = c
    /\ UNCHANGED <<expected_counts, unpacker_vars, exporter_vars, meta_vars>>
    /\ IF input_mode = "batch_list"
       THEN /\ ret' = BatchResult(images, filenames, metadata, cbz_ids)
            /\ held' = Tables
            /\ units' = <<>>
            /\ UNCHANGED <<image_groups, filename_groups, metadata_cache>>
       ELSE IF images = <<>> \/ filenames = <<>> \/ metadata = <<>> \/ cbz_ids = <<>>
       THEN /\ ret' = Raise("ValueError", "All inputs are required in single_images mode")
            /\ held' = Tables
            /\ units' = <<>>
            /\ UNCHANGED <<image_groups, filename_groups, metadata_cache>>
       ELSE LET t == Accumulate(Tables, images, filenames, metadata, cbz_ids, 1)
                d == Drain(DrainStart(t), DictKeys(t.ig))
            IN /\ held' = t
               /\ units' = d.units
               /\ image_groups' = d.t.ig
               /\ filename_groups' = d.t.fg
               /\ metadata_cache' = d.t.mc
               /\ ret' = SingleResult(d, force_output)

\* No unpack_cbz call in sight.
UnpackerIdle ==
    /\ file = NoFile
    /\ uargs = [cbz_path |-> PathA, image_load_cap |-> 0, start_index |-> 0,
                sort_images |-> TRUE]
    /\ upc = "done"
    /\ uret = NoRet
    /\ image_files = <<>>
    /\ tempfiles = {}

\* The source directory /x, the only directory there is at first.
DirX == <<"/", "x">>

\* No archive written.
NoArchive == [exists |-> FALSE]

\* The arguments of export_cbz when the node is left as it is.
DefaultSuffix == <<"_", "p", "r", "o", "c", "e", "s", "s", "e", "d">>

DefaultExportArgs ==
    [images |-> <<>>, filenames |-> <<>>, metadata |-> EmptyDoc,
     cbz_path |-> <<>>, output_directory |-> <<>>, suffix |-> DefaultSuffix,
     image_format |-> "JPEG", preserve_structure |-> TRUE]

\* No export_cbz call in sight.
ExporterIdle ==
    /\ eargs = DefaultExportArgs
    /\ epc = "idle"
    /\ eret = NoRet
    /\ dirs = {DirX}
    /\ written = NoArchive

\* No metadata document to write and read back.
MetaIdle ==
    /\ mdoc = EmptyDoc
    /\ mpc = "idle"
    /\ mxml = NoXml
    /\ mback = EmptyDoc

Init == CollectorInit /\ UnpackerIdle /\ ExporterIdle /\ MetaIdle

\* A call as the host makes it: n pages (image, filename and id, the three
\* lists an unpacker emits with equal lengths) and a metadata list of its own
\* length nm.
Next ==
    \E input_mode \in {"single_images", "batch_list"},
       n \in 0..MaxLen, nm \in 0..MaxLen, force_output \in BOOLEAN :
        \E cbz_ids \in [1..n -> Ids] :
            collect_cbz_data(input_mode,
                             [i \in 1..n |-> ImageAt(i)],
                             [i \in 1..n |-> FilenameAt(i)],
                             [i \in 1..nm |-> MetadataAt(i)],
                             cbz_ids, force_output)

Spec == Init /\ [][Next]_vars

\* ------------------------------------------------------------ unpack_cbz

\* image_files[start_index:] and image_files[:image_load_cap]
DropFirst(xs, k) == SubSeq(xs, Min2(k, Len(xs)) + 1, Len(xs))

TakeFirst(xs, k) == SubSeq(xs, 1, Min2(k, Len(xs)))

RECURSIVE InsertSorted(_, _)
\* x put into an ascending list, after the entries that are not greater.
InsertSorted(xs, x) ==
    IF xs = <<>> THEN <<x>>
    ELSE IF StrLess(x, Head(xs)) THEN <<x>> \o xs
    ELSE <<Head(xs)>> \o InsertSorted(Tail(xs), x)

RECURSIVE SortStrings(_)
\* list.sort() on strings: ascending by code point, stable.
SortStrings(xs) ==
    IF xs = <<>> THEN <<>>
    ELSE InsertSorted(SortStrings(SubSeq(xs, 1, Len(xs) - 1)), xs[Len(xs)])

\* A mutant of SelectEntries: the cap is applied before the offset.
SelectEntries_CapFirst(namelist, image_load_cap, start_index, sort_images) ==
    LET names == SelectSeq(namelist, IsImageEntry)
        sorted == IF sort_images THEN SortStrings(names) ELSE names
        capped == IF image_load_cap > 0 THEN TakeFirst(sorted, image_load_cap)
                  ELSE sorted
    IN DropFirst(capped, start_index)

\* The entries unpack_cbz goes on to load: the image entries, sorted when
\* asked, from start_index on, at most image_load_cap of them when that is
\* above 0.
SelectEntries(namelist, image_load_cap, start_index, sort_images) ==
    LET names == SelectSeq(namelist, IsImageEntry)
        sorted == IF sort_images THEN SortStrings(names) ELSE names
        offset == DropFirst(sorted, start_index)
    IN IF image_load_cap > 0 THEN TakeFirst(offset, image_load_cap) ELSE offset

\* What the bytes of an entry are.
DataOf(f, image_file) ==
    IF image_file \in Damageable THEN f.data[image_file] ELSE "image"

\* The tensor decoded from an entry.
ImageOf(image_file) == <<"tensor", image_file>>

\* parse_comic_info on the sidecar's text.
ParseComicInfo(sidecar) ==
    IF sidecar = "ok"
    THEN [kind |-> "record"]
    ELSE [kind |-> "error", error |-> "Failed to parse ComicInfo.xml"]

\* The placeholder for an archive without ComicInfo.xml.
NoComicInfo(path) ==
    [kind |-> "info", info |-> "No ComicInfo.xml found in CBZ file",
     filename |-> Basename(path)]

\* A mutant of LoadImages: the loop stops at the first entry that fails.
LoadImages_StopAtFailure(f, files) ==
    LET bad == {i \in 1..Len(files) : DataOf(f, files[i]) # "image"}
    IN IF bad = {} THEN files
       ELSE SubSeq(files, 1, (CHOOSE i \in bad : \A j \in bad : i <= j) - 1)

\* The loading loop: the names of the entries that were read and decoded, in
\* the order of the selection; an entry that fails is skipped.
LoadImages(f, files) == SelectSeq(files, LAMBDA n : DataOf(f, n) = "image")

\* What unpack_cbz returns or raises. The order is the code's: the path
\* checks, the container, the sidecar, the name filter (whose ValueError the
\* enclosing `except Exception` turns into a RuntimeError), the loading loop
\* that skips what fails, and the final test for no image at all.
UnpackResult(path, f, image_load_cap, start_index, sort_images) ==
    IF ~f.exists
    THEN Raise("FileNotFoundError", "CBZ file not found.")
    ELSE IF ~EndsWith(Lower(path), CbzSuffix)
    THEN Raise("ValueError", "File must have .cbz extension.")
    ELSE IF ~f.zip
    THEN Raise("ValueError", "Invalid CBZ file: not a valid ZIP archive.")
    ELSE IF f.sidecar = "not_utf8"
    THEN Raise("RuntimeError", "Error processing CBZ file: codec can't decode")
    ELSE IF SelectSeq(f.namelist, IsImageEntry) = <<>>
    THEN Raise("RuntimeError",
               "Error processing CBZ file: No valid image files found in CBZ archive.")
    ELSE
    LET selected == SelectEntries(f.namelist, image_load_cap, start_index,
                                  sort_images)
        filenames == LoadImages(f, selected)
    IN IF filenames = <<>>
       THEN Raise("ValueError", "No images could be loaded from the CBZ file.")
       ELSE [kind |-> "return",
             images |-> [i \in 1..Len(filenames) |-> ImageOf(filenames[i])],
             filenames |-> filenames,
             metadata |-> IF f.sidecar = "absent" THEN NoComicInfo(path)
                          ELSE ParseComicInfo(f.sidecar),
             cbz_ids |-> [i \in 1..Len(filenames) |-> CbzIdOf(path)]]

\* Whether a call gets as far as its loading loop: past the path checks, the
\* container, the sidecar and the name filter.
ReachesLoop(path, f) ==
    /\ f.exists
    /\ EndsWith(Lower(path), CbzSuffix)
    /\ f.zip
    /\ f.sidecar # "not_utf8"
    /\ SelectSeq(f.namelist, IsImageEntry) # <<>>

\* The temporary files the loading loop leaves behind: one per entry whose
\* bytes could not be read after its temporary file was made.
LeftoverTempFiles(f, files) ==
    {files[i] : i \in {j \in 1..Len(files) : DataOf(f, files[j]) = "bad_crc"}}

\* One whole call of CBZUnpacker.unpack_cbz.
unpack_cbz ==
    /\ upc = "ready"
    /\ upc' = "done"
    /\ uret' = UnpackResult(uargs.cbz_path, file, uargs.image_load_cap,
                            uargs.start_index, uargs.sort_images)
    /\ image_files' = IF ReachesLoop(uargs.cbz_path, file)
                      THEN SelectEntries(file.namelist, uargs.image_load_cap,
                                         uargs.start_index, uargs.sort_images)
                      ELSE <<>>
    /\ tempfiles' = IF ReachesLoop(uargs.cbz_path, file)
                    THEN tempfiles \cup LeftoverTempFiles(file, image_files')
                    ELSE tempfiles
    /\ UNCHANGED <<file, uargs, collector_vars, exporter_vars, meta_vars>>

\* A fresh collector, and a call of unpack_cbz about to be made with any
\* arguments. The path decides only the suffix test and the id, so archives of
\* every content lie at PathA and archives of at most one entry at the others.
InitUnpack ==
    /\ CollectorInit
    /\ uargs \in [cbz_path : Paths, image_load_cap : 0..MaxIndex,
                  start_index : 0..MaxIndex, sort_images : BOOLEAN]
    /\ file \in {NoFile, NotZipFile}
                \cup {a \in Archives : uargs.cbz_path = PathA \/ Len(a.namelist) <= 1}
    /\ upc = "ready"
    /\ uret = NoRet
    /\ image_files = <<>>
    /\ tempfiles = {}
    /\ ExporterIdle
    /\ MetaIdle

NextUnpack == unpack_cbz

SpecUnpack == InitUnpack /\ [][NextUnpack]_vars

\* ------------------------------------- writing a sidecar and reading it back

\* create_comic_info_xml on the document.
create_step ==
    /\ mpc = "ready"
    /\ mxml' = create_comic_info_xml(mdoc)
    /\ mpc' = "created"
    /\ UNCHANGED <<mdoc, mback, collector_vars, unpacker_vars, exporter_vars>>

\* parse_comic_info on the XML made, when one was made.
parse_step ==
    /\ mpc = "created"
    /\ mxml.xml
    /\ mback' = parse_comic_info(mxml)
    /\ mpc' = "parsed"
    /\ UNCHANGED <<mdoc, mxml, collector_vars, unpacker_vars, exporter_vars>>

\* Any metadata string about to be written and read back.
InitMeta ==
    /\ CollectorInit
    /\ UnpackerIdle
    /\ ExporterIdle
    /\ mdoc \in Docs \cup {NotJson}
    /\ mpc = "ready"
    /\ mxml = NoXml
    /\ mback = EmptyDoc

NextMeta == create_step \/ parse_step

SpecMeta == InitMeta /\ [][NextMeta]_vars

\* ------------------------------------------------------------ export_cbz

UnknownCbz == <<"u", "n", "k", "n", "o", "w", "n", "_", "c", "b", "z">>

\* extract_string_from_nested_list on the cbz_path list.
ExtractPath(cbz_path) == IF cbz_path = <<>> THEN UnknownCbz ELSE cbz_path[1]

\* The metadata handed to create_comic_info_xml: the first element of a list
\* that has one; an empty list stays what it is, which json.loads rejects.
ExtractMetadata(metadata) == IF metadata = <<>> THEN NotJson ELSE metadata[1]

Digits == <<"0", "1", "2", "3", "4", "5", "6", "7", "8", "9">>

\* f"page_{i+1:04d}" for the i-th image, counted from 1 here.
PageName(n) == <<"p", "a", "g", "e", "_", "0", "0", "0", Digits[n + 1]>>

\* The name an image is saved under in the temporary directory.
OutputFilename(n, original_filename, image_format, preserve_structure) ==
    LET ext == IF image_format = "PNG" THEN <<".", "p", "n", "g">>
               ELSE <<".", "j", "p", "g">>
    IN IF preserve_structure /\ original_filename # <<>>
       THEN SplitextRoot(original_filename) \o ext
       ELSE PageName(n) \o ext

ExportReturn(output_path) == [kind |-> "return", output_path |-> output_path]

\* What export_cbz returns or raises, the directories there are after it and
\* the archive it wrote. The order is the code's: the output path, the
\* output directory (os.makedirs("") fails), the two lengths, the images
\* saved under their output names (a later file of the same name replaces an
\* earlier one), the sidecar when create_comic_info_xml gave one, the archive.
ExportResult(images, filenames, metadata, cbz_path, output_directory, suffix, image_format, preserve_structure, ds) ==
    LET path == ExtractPath(cbz_path)
        out_dir == IF output_directory = <<>> THEN Dirname(path)
                   ELSE output_directory
        base_name == SplitextRoot(Basename(path))
        output_path == PathJoin(out_dir, base_name \o suffix \o CbzSuffix)
        comic_info_xml == create_comic_info_xml(ExtractMetadata(metadata))
    IN IF out_dir \notin ds /\ out_dir = <<>>
       THEN [ret |-> Raise("FileNotFoundError", "[Errno 2] No such file or directory: ''"),
             dirs |-> ds, written |-> NoArchive]
       ELSE IF Len(images) # Len(filenames)
       THEN [ret |-> Raise("ValueError", "Number of images must match number of filenames"),
             dirs |-> ds \cup {out_dir}, written |-> NoArchive]
       ELSE [ret |-> ExportReturn(output_path),
             dirs |-> ds \cup {out_dir},
             written |-> [exists |-> TRUE,
                          path |-> output_path,
                          entries |-> {OutputFilename(i, filenames[i], image_format,
                                                      preserve_structure) :
                                         i \in 1..Len(filenames)},
                          sidecar |-> comic_info_xml]]

\* One whole call of ExportCBZ.export_cbz.
export_cbz(images, filenames, metadata, cbz_path, output_directory, suffix, image_format, preserve_structure) ==
    LET r == ExportResult(images, filenames, metadata, cbz_path, output_directory,
                          suffix, image_format, preserve_structure, dirs)
    IN /\ eargs' = [images |-> images, filenames |-> filenames,
                    metadata |-> metadata, cbz_path |-> cbz_path,
                    output_directory |-> output_directory, suffix |-> suffix,
                    image_format |-> image_format,
                    preserve_structure |-> preserve_structure]
       /\ eret' = r.ret
       /\ dirs' = r.dirs
       /\ written' = r.written
       /\ epc' = "done"
       /\ UNCHANGED <<collector_vars, unpacker_vars, meta_vars>>

\* Most images and most filenames handed to one export_cbz call.
MaxOut == 2

NameP == <<"a", ".", "p", "n", "g">>

\* The filenames handed to export_cbz: two that differ in the extension only,
\* one in a subdirectory, and the empty one.
ExportNames == {NameA, NameP, NameS, <<>>}

FooDoc == [EmptyDoc EXCEPT !.Foo = StrX]

ExportDocs == {NotJson, EmptyDoc, InfoDoc, ErrorDoc, TitleDoc, FooDoc}

BarePath == <<"a", ".", "c", "b", "z">>

DirOut == <<"/", "o", "u", "t">>

\* The export_cbz call of the state.
export_call ==
    /\ epc = "ready"
    /\ export_cbz(eargs.images, eargs.filenames, eargs.metadata, eargs.cbz_path,
                  eargs.output_directory, eargs.suffix, eargs.image_format,
                  eargs.preserve_structure)

\* An export_cbz call about to be made with any arguments; /x exists and
\* /out does not.
InitExport ==
    /\ CollectorInit
    /\ UnpackerIdle
    /\ MetaIdle
    /\ eargs \in [images : {[i \in 1..n |-> ImageAt(i)] : n \in 0..MaxOut},
                  filenames : UNION {[1..n -> ExportNames] : n \in 0..MaxOut},
                  metadata : {<<>>} \cup {<<d>> : d \in ExportDocs},
                  cbz_path : {<<>>, <<PathA>>, <<BarePath>>},
                  output_directory : {<<>>, DirOut},
                  suffix : {DefaultSuffix, <<>>},
                  image_format : {"JPEG", "PNG"},
                  preserve_structure : BOOLEAN]
    /\ epc = "ready"
    /\ eret = NoRet
    /\ dirs = {DirX}
    /\ written = NoArchive

NextExport == export_call

SpecExport == InitExport /\ [][NextExport]_vars

\* ------------------------------------- reader, then collector, then writer

\* json.loads on the metadata string unpack_cbz made.
DocOf(metadata) ==
    IF metadata.kind = "info" THEN InfoDoc
    ELSE IF metadata.kind = "error" THEN ErrorDoc
    ELSE TitleDoc

\* The archives read at the head of the chain: entries that differ in the
\* extension only, an entry in a subdirectory and one under __MACOSX/, a.jpg
\* readable or not, a sidecar that decodes.
PipeArchives ==
    {a \in Archives :
        /\ \A i \in 1..Len(a.namelist) : a.namelist[i] \in {NameA, NameS, NameM}
        /\ a.data[NameB] = "image"
        /\ a.sidecar # "not_utf8"}
    \cup
    {[exists |-> TRUE, zip |-> TRUE, namelist |-> l,
      data |-> [n \in Damageable |-> "image"], sidecar |-> sc] :
        l \in {<<NameA, NameP>>, <<NameP, NameS>>, <<NameP>>},
        sc \in {"absent", "ok"}}

\* collect_cbz_data on what unpack_cbz returned: the three lists, and the one
\* metadata string as a list of one.
pipe_collect ==
    /\ epc = "piped"
    /\ upc = "done"
    /\ uret.kind = "return"
    /\ call = NoCall
    /\ \E input_mode \in {"batch_list", "single_images"} :
         collect_cbz_data(input_mode, uret.images, uret.filenames,
                          <<uret.metadata>>, uret.cbz_ids, FALSE)

\* export_cbz on what collect_cbz_data returned, with the options of the
\* state.
pipe_export ==
    /\ epc = "piped"
    /\ call # NoCall
    /\ ret.kind = "return"
    /\ export_cbz(ret.images, ret.filenames,
                  IF call.input_mode = "batch_list"
                  THEN <<DocOf(ret.metadata)>>
                  ELSE [i \in 1..Len(ret.metadata) |-> DocOf(ret.metadata[i])],
                  ret.cbz_paths, eargs.output_directory, eargs.suffix,
                  eargs.image_format, eargs.preserve_structure)

\* An archive about to be read, collected and exported; the directory of
\* the archive exists.
InitPipeline ==
    /\ CollectorInit
    /\ MetaIdle
    /\ uargs \in [cbz_path : {PathA, PathB}, image_load_cap : {0},
                  start_index : {0}, sort_images : BOOLEAN]
    /\ file \in PipeArchives
    /\ upc = "ready"
    /\ uret = NoRet
    /\ image_files = <<>>
    /\ tempfiles = {}
    /\ eargs \in {[DefaultExportArgs EXCEPT !.output_directory = d,
                                            !.image_format = f,
                                            !.preserve_structure = p] :
                    d \in {<<>>, DirOut}, f \in {"JPEG", "PNG"}, p \in BOOLEAN}
    /\ epc = "piped"
    /\ eret = NoRet
    /\ dirs = {Dirname(uargs.cbz_path)}
    /\ written = NoArchive

NextPipeline == unpack_cbz \/ pipe_collect \/ pipe_export

SpecPipeline == InitPipeline /\ [][NextPipeline]_vars

\* ------------------------------------------------- reading a call's effect

SingleReturned(c, r) == c.input_mode = "single_images" /\ r.kind = "return"

\* The pages a call delivers: the positions that carry an image, a filename
\* and an id.
NPages(c) == Min2(Min2(Len(c.images), Len(c.filenames)), Len(c.cbz_ids))

PositionsOf(c, id) == {i \in 1..NPages(c) : c.cbz_ids[i] = id}

RECURSIVE PickFrom(_, _, _, _)
\* The entries of list xs at the positions pos, from position i on, in order.
PickFrom(xs, pos, i, n) ==
    IF i > n THEN <<>>
    ELSE (IF i \in pos THEN <<xs[i]>> ELSE <<>>) \o PickFrom(xs, pos, i + 1, n)

\* The images and the filenames a call delivers under one id, in list order.
ImagesFor(c, id) == PickFrom(c.images, PositionsOf(c, id), 1, NPages(c))

FilenamesFor(c, id) == PickFrom(c.filenames, PositionsOf(c, id), 1, NPages(c))

\* The units a call's output loop made for one id.
UnitsFor(us, id) == SelectSeq(us, LAMBDA u : u.cbz_id = id)

UnitImages(us) == Flatten([k \in 1..Len(us) |-> us[k].images])

UnitFilenames(us) == Flatten([k \in 1..Len(us) |-> us[k].filenames])

\* A single_images call whose four lists are all as long as its page list.
Aligned(c) ==
    /\ c.input_mode = "single_images"
    /\ Len(c.images) = Len(c.filenames)
    /\ Len(c.images) = Len(c.cbz_ids)
    /\ Len(c.images) = Len(c.metadata)

Count(xs, x) == Cardinality({i \in 1..Len(xs) : xs[i] = x})

\* The ways to cut a flat list of n pages into k runs of at least one page,
\* each way the tuple of the runs' lengths.
RECURSIVE SumTo(_, _)
SumTo(f, k) == IF k = 0 THEN 0 ELSE f[k] + SumTo(f, k - 1)

Cuts(n, k) == {f \in [1..k -> 1..n] : SumTo(f, k) = n}

\* ----------------------------------------------------------------- claims

\* C1: the pages of one archive id delivered over two successive unforced
\* single_images calls are emitted together: the first call emits no unit for
\* the id, and a unit the second call emits for it holds the pages of both.
C1_EmittedTogether ==
    [][\A id \in Ids :
         (/\ Aligned(call) /\ ~call.force_output /\ PositionsOf(call, id) # {}
          /\ Aligned(call') /\ ~call'.force_output /\ PositionsOf(call', id) # {}
          /\ ret'.kind = "return")
         => /\ UnitsFor(units, id) = <<>>
            /\ UnitImages(UnitsFor(units', id))
                 = ImagesFor(call, id) \o ImagesFor(call', id)]_vars

\* C2: the images and filenames emitted for an id are exactly the pages
\* delivered under it, in arrival order: none moved, merged or dropped.
C2_OrderPreserved ==
    SingleReturned(call, ret) =>
        \A id \in Ids :
            /\ UnitImages(UnitsFor(units, id)) = ImagesFor(call, id)
            /\ UnitFilenames(UnitsFor(units, id)) = FilenamesFor(call, id)

\* C3: pages delivered under two ids in one unforced call come out as two
\* units, one per id, each with its own pages in delivery order, and the
\* returned lists allow exactly one reading as two units.
C3_GroupIsolation ==
    (/\ Aligned(call) /\ ~call.force_output /\ ret.kind = "return"
     /\ \A id \in Ids : PositionsOf(call, id) # {})
    => /\ Len(ret.cbz_paths) = 2
       /\ \A id \in Ids :
            /\ Len(UnitsFor(units, id)) = 1
            /\ UnitsFor(units, id)[1].images = ImagesFor(call, id)
       /\ Cardinality(Cuts(Len(ret.images), Len(ret.cbz_paths))) = 1

\* C4: a single_images call with nothing pending and no pages raises when
\* force_output is false and returns an empty result when it is true.
C4_EmptyDrain ==
    (/\ call.input_mode = "single_images"
     /\ call.images = <<>>
     /\ held.ig = <<>>)
    => IF call.force_output
       THEN ret.kind = "return" /\ ret.images = <<>>
       ELSE ret.kind = "raise" /\ ret.exc = "ValueError"

\* C5: after a call every id that held pages is either wholly in the output
\* (one unit with all its pages and filenames in order, the flat output lists
\* made of the units, the id gone from all three tables) or untouched in the
\* tables and absent from the output.
C5_DrainAtomic ==
    \A id \in Ids :
        DictHas(held.ig, id) =>
            \/ /\ ret.kind = "return"
               /\ Len(UnitsFor(units, id)) = 1
               /\ UnitsFor(units, id)[1].images = DictGet(held.ig, id)
               /\ UnitsFor(units, id)[1].filenames = DictGet(held.fg, id)
               /\ ret.images = UnitImages(units)
               /\ ret.filenames = UnitFilenames(units)
               /\ ~DictHas(image_groups, id)
               /\ ~DictHas(filename_groups, id)
               /\ ~DictHas(metadata_cache, id)
            \/ /\ UnitsFor(units, id) = <<>>
               /\ DictHas(image_groups, id)
               /\ DictGet(image_groups, id) = DictGet(held.ig, id)
               /\ DictGet(filename_groups, id) = DictGet(held.fg, id)
               /\ DictGet(metadata_cache, id) = DictGet(held.mc, id)

\* C5's case: a group of two pages was held and came out whole.
C5_Witness ==
    \E id \in Ids :
        /\ DictHas(held.ig, id)
        /\ Len(DictGet(held.ig, id)) >= 2
        /\ ret.kind = "return"
        /\ Len(units) = 2

\* C6: every page delivered to a call that returns is in that call's output
\* once and in no table afterwards; an id emitted by the call before and
\* delivered again gets a fresh unit of the later pages only, with the later
\* call's first metadata for it.
C6_EmitOnce ==
    [][SingleReturned(call', ret') =>
        \A id \in Ids :
            /\ \A img \in {"p1", "p2"} :
                 Count(UnitImages(UnitsFor(units', id)), img)
                   = Count(ImagesFor(call', id), img)
            /\ ~DictHas(image_groups', id)
            /\ ~DictHas(filename_groups', id)
            /\ ~DictHas(metadata_cache', id)
            /\ (UnitsFor(units, id) # <<>> /\ PositionsOf(call', id) # {})
               => /\ Len(UnitsFor(units', id)) = 1
                  /\ UnitsFor(units', id)[1].images = ImagesFor(call', id)
                  /\ UnitsFor(units', id)[1].metadata
                       = call'.metadata[CHOOSE i \in PositionsOf(call', id) :
                                          \A j \in PositionsOf(call', id) : i <= j]]_vars

\* C7: the metadata emitted for an id is the metadata at the position of the
\* id's first page in the call, whatever later pages of the id carry.
C7_FirstMetadataWins ==
    SingleReturned(call, ret) =>
        /\ Len(ret.metadata) = Len(units)
        /\ \A k \in 1..Len(units) :
             LET pos == {i \in 1..Len(call.cbz_ids) : call.cbz_ids[i] = units[k].cbz_id}
                 first == CHOOSE i \in pos : \A j \in pos : i <= j
             IN /\ pos # {}
                /\ first <= Len(call.metadata)
                /\ units[k].metadata = call.metadata[first]
                /\ ret.metadata[k] = call.metadata[first]

\* C7's case: an id emitted after two of its pages came with different
\* metadata.
C7_Witness ==
    /\ SingleReturned(call, ret)
    /\ \E k \in 1..Len(units) :
         /\ Len(units[k].images) >= 2
         /\ \E i, j \in 1..Len(call.metadata) :
              /\ i < j
              /\ call.cbz_ids[i] = units[k].cbz_id
              /\ call.cbz_ids[j] = units[k].cbz_id
              /\ call.metadata[i] # call.metadata[j]

\* C8: a batch_list call leaves the three tables as they were; with pages it
\* returns the images and filenames as given and the first metadata record,
\* without pages it raises.
C8_BatchStateless ==
    [][call'.input_mode = "batch_list" =>
        /\ image_groups' = image_groups
        /\ filename_groups' = filename_groups
        /\ metadata_cache' = metadata_cache
        /\ IF call'.images = <<>>
           THEN /\ ret'.kind = "raise"
                /\ ret'.exc = "ValueError"
                /\ ret'.msg = "No images provided in batch mode"
           ELSE /\ ret'.kind = "return"
                /\ ret'.images = call'.images
                /\ ret'.filenames = call'.filenames
                /\ call'.metadata # <<>> => ret'.metadata = call'.metadata[1]]_vars

\* C8's case: a batch of several pages with several metadata records went
\* through.
C8_Witness ==
    /\ call.input_mode = "batch_list"
    /\ ret.kind = "return"
    /\ Len(ret.images) >= 2
    /\ Len(call.metadata) >= 2

\* How many of the archive's image entries sort before name q.
Rank(f, q) ==
    Cardinality({i \in 1..Len(f.namelist) :
                   IsImageEntry(f.namelist[i]) /\ StrLess(f.namelist[i], q)})

NImageEntries(f) ==
    Cardinality({i \in 1..Len(f.namelist) : IsImageEntry(f.namelist[i])})

\* image_files is the run of n entries that follow the first start_index
\* entries of the sorted image entries (fewer when they run out).
IsSortedSlice(f, files, start_index, n) ==
    /\ Len(files) = IF NImageEntries(f) - start_index < 0 THEN 0
                    ELSE Min2(n, NImageEntries(f) - start_index)
    /\ \A i \in 1..Len(files) :
         /\ \E j \in 1..Len(f.namelist) : f.namelist[j] = files[i]
         /\ IsImageEntry(files[i])
         /\ Rank(f, files[i]) = start_index + i - 1

SelectionMade == upc = "done" /\ ReachesLoop(uargs.cbz_path, file)

\* C9 as stated: with sort_images the selection is always
\* sorted(names)[start_index : start_index + image_load_cap].
C9_SliceOfSorted ==
    (SelectionMade /\ uargs.sort_images)
    => IsSortedSlice(file, image_files, uargs.start_index, uargs.image_load_cap)

\* C9: with sort_images the selection is sorted(names)[start_index :
\* start_index + image_load_cap] when image_load_cap is above 0 and
\* sorted(names)[start_index:], every entry from the offset on, when it is 0.
C9_SortOffsetCap ==
    (SelectionMade /\ uargs.sort_images)
    => IsSortedSlice(file, image_files, uargs.start_index,
                     IF uargs.image_load_cap > 0 THEN uargs.image_load_cap
                     ELSE NImageEntries(file))

\* C9's case: names [b.jpg, a.jpg, c.jpg] with start_index 1 and
\* image_load_cap 1 select [b.jpg].
C9_Witness ==
    /\ SelectionMade
    /\ file.namelist = <<NameB, NameA, NameC>>
    /\ uargs.sort_images /\ uargs.start_index = 1 /\ uargs.image_load_cap = 1
    /\ image_files = <<NameB>>

\* The exception unpack_cbz raises for a file that is no ZIP container.
InvalidFormatExc == "ValueError"

\* C10: a missing path raises FileNotFoundError, an existing path without the
\* .cbz suffix the extension error, and a file that is no ZIP container and an
\* archive without image entries both raise the same kind of error.
C10_ErrorKinds ==
    upc = "done" =>
        /\ ~file.exists
             => uret.kind = "raise" /\ uret.exc = "FileNotFoundError"
        /\ (file.exists /\ ~EndsWith(Lower(uargs.cbz_path), CbzSuffix))
             => /\ uret.kind = "raise" /\ uret.exc = "ValueError"
                /\ uret.msg = "File must have .cbz extension."
        /\ (file.exists /\ EndsWith(Lower(uargs.cbz_path), CbzSuffix))
             => /\ ~file.zip
                    => uret.kind = "raise" /\ uret.exc = InvalidFormatExc
                /\ (/\ file.zip
                    /\ file.sidecar \in {"absent", "ok"}
                    /\ SelectSeq(file.namelist, IsImageEntry) = <<>>)
                    => uret.kind = "raise" /\ uret.exc = InvalidFormatExc

\* The keys of a table, as a set.
KeySet(d) == {d[i][1] : i \in 1..Len(d)}

\* C18: a single_images call with n >= 1 images, n filenames, n ids and a
\* metadata list of any length above 0 stores and emits all n images.
C18_PageConservation ==
    (/\ call.input_mode = "single_images"
     /\ Len(call.images) >= 1
     /\ Len(call.filenames) = Len(call.images)
     /\ Len(call.cbz_ids) = Len(call.images)
     /\ Len(call.metadata) >= 1)
    => /\ ret.kind = "return"
       /\ Len(ret.images) = Len(call.images)
       /\ \A id \in Ids :
            PositionsOf(call, id) # {}
            => /\ DictHas(held.ig, id)
               /\ Len(DictGet(held.ig, id)) = Cardinality(PositionsOf(call, id))

OpensArchive == file.exists /\ EndsWith(Lower(uargs.cbz_path), CbzSuffix) /\ file.zip

\* C11: for an archive with a readable page, whatever is wrong with the
\* sidecar, unpack_cbz returns the pages, the metadata being the 'absent'
\* placeholder for a missing sidecar and an 'error' placeholder for one that
\* cannot be decoded or parsed.
C11_MetadataNeverFails ==
    (/\ upc = "done"
     /\ OpensArchive
     /\ uargs.start_index = 0
     /\ uargs.image_load_cap = 0
     /\ \E i \in 1..Len(file.namelist) :
          IsImageEntry(file.namelist[i]) /\ DataOf(file, file.namelist[i]) = "image")
    => /\ uret.kind = "return"
       /\ file.sidecar = "absent" => uret.metadata.kind = "info"
       /\ file.sidecar \in {"not_utf8", "not_xml"} => uret.metadata.kind = "error"

\* C12: the call returns exactly the selected entries that decode, in the
\* order of the selection, with images, filenames and ids of equal length,
\* images[i] decoded from filenames[i] and every id the archive's; it fails
\* only when none of the selected entries decodes.
C12_FailuresSkipped ==
    SelectionMade =>
        LET ok == {i \in 1..Len(image_files) : DataOf(file, image_files[i]) = "image"}
        IN IF ok = {}
           THEN /\ uret.kind = "raise"
                /\ uret.exc = "ValueError"
                /\ uret.msg = "No images could be loaded from the CBZ file."
           ELSE /\ uret.kind = "return"
                /\ uret.filenames = PickFrom(image_files, ok, 1, Len(image_files))
                /\ Len(uret.images) = Len(uret.filenames)
                /\ Len(uret.cbz_ids) = Len(uret.filenames)
                /\ \A i \in 1..Len(uret.filenames) :
                     /\ uret.images[i] = <<"tensor", uret.filenames[i]>>
                     /\ uret.cbz_ids[i] = CbzIdOf(uargs.cbz_path)

\* C12's case: a selected entry failed and a later one was returned.
C12_Witness ==
    /\ SelectionMade
    /\ uret.kind = "return"
    /\ \E i, j \in 1..Len(image_files) :
         /\ i < j
         /\ DataOf(file, image_files[i]) # "image"
         /\ DataOf(file, image_files[j]) = "image"

\* C20: when unpack_cbz has returned or raised, no temporary file it made is
\* left.
C20_NoTempFileLeft == upc = "done" => tempfiles = {}

\* A document whose keys are ComicInfo fields with non-empty text and whose
\* Pages entries have no attribute but those parse_comic_info reads.
FieldsAndPagesOnly(doc) ==
    /\ doc.json
    /\ doc.error = Absent /\ doc.info = Absent /\ doc.Foo = Absent
    /\ doc.Title \in {Absent, StrX}
    /\ \A i \in 1..Len(doc.Pages.list) : doc.Pages.list[i].Bookmark = Absent

\* C17 as stated: such a document comes back from create_comic_info_xml and
\* parse_comic_info with the same field values and the same Pages entries in
\* the same order.
C17_RoundTrip ==
    (mpc # "ready" /\ FieldsAndPagesOnly(mdoc))
    => /\ mxml.xml
       /\ mpc = "parsed" => /\ mback.Title = mdoc.Title
                            /\ mback.Pages.list = mdoc.Pages.list

\* C17: it does when, besides, every Pages entry has at least one of the
\* attributes read and the attribute values are text.
C17_RoundTripOfText ==
    (/\ mpc # "ready"
     /\ FieldsAndPagesOnly(mdoc)
     /\ \A i \in 1..Len(mdoc.Pages.list) :
          /\ mdoc.Pages.list[i].Image # Absent
          /\ mdoc.Pages.list[i].Image[1] = "str")
    => /\ mxml.xml
       /\ mpc = "parsed" => /\ mback.Title = mdoc.Title
                            /\ mback.Pages.list = mdoc.Pages.list

\* C17's case: Title "X" with two Pages entries came back.
C17_Witness ==
    /\ mpc = "parsed"
    /\ mdoc.Title = StrX
    /\ Len(mdoc.Pages.list) = 2
    /\ mdoc.Pages.list[1] # mdoc.Pages.list[2]
    /\ mback = mdoc

\* C13: export_cbz called with no image and no filename raises and writes no
\* archive.
C13_RejectsEmpty ==
    (epc = "done" /\ eargs.images = <<>> /\ eargs.filenames = <<>>)
    => eret.kind = "raise" /\ ~written.exists

\* C14: the archive export_cbz writes has a ComicInfo.xml exactly when the
\* metadata is a record with at least one field: none for the 'absent' and
\* 'error' placeholders, for what is no JSON and for the record without
\* fields.
C14_SidecarOnlyForRecord ==
    (epc = "done" /\ eret.kind = "return")
    => LET doc == ExtractMetadata(eargs.metadata)
       IN written.sidecar.xml
          <=> /\ doc.json
              /\ doc.error = Absent /\ doc.info = Absent
              /\ doc.Title # Absent \/ doc.Foo # Absent \/ doc.Pages.present

\* The export of the chain ran with the node's own options, but for the
\* output directory.
DefaultOptions ==
    /\ eargs.suffix = DefaultSuffix
    /\ eargs.image_format = "JPEG"
    /\ eargs.preserve_structure

\* C15: an archive of N image entries, all readable, read without cap and
\* offset, collected in batch mode and exported with the default options to
\* a directory given, gives an archive with exactly N page entries.
C15_RoundTripPageCount ==
    (/\ epc = "done"
     /\ call.input_mode = "batch_list"
     /\ uargs.image_load_cap = 0 /\ uargs.start_index = 0
     /\ \A i \in 1..Len(file.namelist) : DataOf(file, file.namelist[i]) = "image"
     /\ DefaultOptions
     /\ eargs.output_directory # <<>>)
    => /\ eret.kind = "return"
       /\ written.exists
       /\ Cardinality(written.entries) = NImageEntries(file)

\* C16: the archive of the chain is written at
\* {output_directory}/{basename of the source path without extension}{suffix}.cbz,
\* the directory being the source archive's own when none is given, and the
\* export succeeds.
C16_OutputPath ==
    epc = "done" =>
        LET dir == IF eargs.output_directory = <<>> THEN Dirname(uargs.cbz_path)
                   ELSE eargs.output_directory
            expected == dir \o <<"/">> \o SplitextRoot(Basename(uargs.cbz_path))
                            \o eargs.suffix \o <<".", "c", "b", "z">>
        IN /\ eret.kind = "return"
           /\ eret.output_path = expected
           /\ written.exists
           /\ written.path = expected

====
